---- MODULE Spec2Model ----
(***************************************************************************)
(* Concurrent audio-track / channel extraction of src/audio_toolkit.py:    *)
(* extract_all_audio_streams_best_effort and split_channels_best_effort.   *)
(* One call is modelled from its entry to its return (or to the exception  *)
(* that leaves it): probe, planning of the worker closures, creation of    *)
(* the output directory, the thread pool, the workers' ffmpeg invocations  *)
(* and the as_completed loop that gathers (out_path, message) pairs.       *)
(*                                                                         *)
(* Paths are file names inside output_dir; the directory is the set fs of  *)
(* the names that exist.  ffmpeg and ffprobe are external: an invocation   *)
(* ends "ok" (exit 0, the output file exists afterwards), "fail" (non-zero *)
(* exit, subprocess.CalledProcessError) or "oserror" (the process could    *)
(* not be started, an OSError such as FileNotFoundError).                  *)
(*                                                                         *)
(* Further specifications model the loop of _extract_tracks over several   *)
(* containers (SpecBatch), process_videos_in_directory with extract_audio  *)
(* and add_album_art (SpecVideos), ComboTrackerApp of combo_tracker.py     *)
(* (SpecCombo) and "Video to mp3.py" (SpecMp3).                            *)
(***************************************************************************)
EXTENDS Integers, Sequences, FiniteSets, TLC

\* ---------------------------------------------------------------- bounds
MaxStreams == 2
MaxChannels == 2
MaxTasks == 3
MaxExisting == 1
MaxRuns == 2
MaxFiles == 2
MaxEnvChanges == 2
MaxVideos == 2
MaxComboLen == 3
MaxMp4 == 2
MaxJobs == 2

\* ------------------------------------------------------------- constants
\* workers = max(1, (os.cpu_count() or 4)) : the value used when cpu_count() is None
DefaultCpuCount == 4
\* the least worker count max(1, ...) allows
MinWorkers == 1
\* "no channel": the whole-track closures have no channel index
NoCh == -1

\* <<max_workers argument, os.cpu_count() of the host>>, 0 standing for cpu_count() = None
PoolArgs == {<<0, 0>>, <<-1, 2>>, <<1, 2>>}

VARIABLES
    fn,           \* which function is called: "tracks" or "split"
    streams,      \* ffprobe_audio_streams(input_path): sequence of [codec_name, channels]
    overwrite,    \* the overwrite argument
    max_workers,  \* the max_workers argument
    cpu_count,    \* os.cpu_count() (0 = None)
    fs,           \* names existing in output_dir
    pc,           \* position of the calling thread
    workers,      \* size of the ThreadPoolExecutor (0 before it exists)
    tasks,        \* the planned worker closures, in submission order
    fut,          \* one future per task
    calls,        \* per task, the engine invocations it made so far
    gate,         \* per task, what os.path.exists(out) returned at the gate ("none" before)
    msgs,         \* the msgs list of the call
    created,      \* the created list of the call
    dir0,         \* the names that existed in output_dir when the call was made
    run,          \* number of the call on this container (1 or 2)
    first,        \* per task, the outcome kind of the first call (for a second call)
    probe,        \* how ffprobe ended in this call: "none" (not run yet), "ok", "oserror"
    dir_ok,       \* output_dir is known to exist (it holds files, or makedirs succeeded)
    envLeft,      \* directory changes by other programs still allowed in this behaviour
    files,        \* the target containers of a multi-container run: their probe results
    cur,          \* index in files of the container being processed
    log,          \* the log list of _extract_tracks / _split_channels
    pv,           \* process_videos_in_directory: its arguments, locals and the files
    ct,           \* ComboTrackerApp: its fields and the positions of its two threads
    mp            \* "Video to mp3.py": main's locals, the pool and the files

vars == <<fn, streams, overwrite, max_workers, cpu_count, fs, pc, workers, tasks,
          fut, calls, gate, msgs, created, dir0, run, first, probe, dir_ok,
          envLeft, files, cur, log, pv, ct, mp>>

\* the state of the other programs and functions of the repository
others == <<pv, ct, mp>>

\* the other programs are not running
OthersOff == pv = [pc |-> "off"] /\ ct = [pc |-> "off"] /\ mp = [pc |-> "off"]

\* what a single call of the extraction functions leaves alone
batch == <<envLeft, files, cur, log, others>>

\* os.path.splitext(os.path.basename(f))[0] of the k-th target container
Stem(k) == CASE k = 1 -> "a" [] k = 2 -> "b" [] OTHER -> "c"

\* os.path.splitext(os.path.basename(input_path))[0] of the container being processed
base == Stem(cur)

\* ------------------------------------------------------------ pure tables

\* str(n) for the small non-negative indices of f-strings
Digit(n) ==
    CASE n = 0 -> "0" [] n = 1 -> "1" [] n = 2 -> "2" [] n = 3 -> "3" [] n = 4 -> "4"
      [] n = 5 -> "5" [] n = 6 -> "6" [] n = 7 -> "7" [] n = 8 -> "8" [] n = 9 -> "9"

RECURSIVE Dec(_)
Dec(n) == IF n < 10 THEN Digit(n) ELSE Dec(n \div 10) \o Digit(n % 10)

\* faulty variant: the table has no PCM rows, PCM falls to the default container
codec_to_extension_nopcm(codec_name) ==
    CASE codec_name = "aac" -> "m4a"
      [] codec_name = "alac" -> "m4a"
      [] codec_name = "flac" -> "flac"
      [] codec_name = "mp3" -> "mp3"
      [] codec_name = "opus" -> "opus"
      [] codec_name = "vorbis" -> "ogg"
      [] codec_name = "ac3" -> "ac3"
      [] codec_name = "eac3" -> "eac3"
      [] OTHER -> "m4a"

codec_to_extension(codec_name) ==
    CASE codec_name = "aac" -> "m4a"
      [] codec_name = "alac" -> "m4a"
      [] codec_name = "flac" -> "flac"
      [] codec_name = "mp3" -> "mp3"
      [] codec_name = "opus" -> "opus"
      [] codec_name = "vorbis" -> "ogg"
      [] codec_name = "pcm_s16le" -> "wav"
      [] codec_name = "pcm_s24le" -> "wav"
      [] codec_name = "pcm_s32le" -> "wav"
      [] codec_name = "ac3" -> "ac3"
      [] codec_name = "eac3" -> "eac3"
      [] OTHER -> "m4a"

pcm_codecs ==
    {"pcm_s8", "pcm_u8", "pcm_s16le", "pcm_s16be", "pcm_s24le", "pcm_s24be",
     "pcm_s32le", "pcm_s32be", "pcm_f32le", "pcm_f32be", "pcm_f64le", "pcm_f64be"}

\* enc_map.get(codec, ('aac', 'm4a')) : <<encoder, ext2>>
enc_map(codec) ==
    CASE codec = "aac" -> <<"aac", "m4a">>
      [] codec = "mp3" -> <<"libmp3lame", "mp3">>
      [] codec = "flac" -> <<"flac", "flac">>
      [] codec = "opus" -> <<"libopus", "opus">>
      [] OTHER -> <<"aac", "m4a">>

\* f"{base}.a{idx}.{ext}"
TrackName(idx, ext) == base \o ".a" \o Dec(idx) \o "." \o ext

\* f"{base}.a{s_idx}.ch{ch}.{ext}"
ChannelName(s_idx, ch, ext) ==
    base \o ".a" \o Dec(s_idx) \o ".ch" \o Dec(ch) \o "." \o ext

\* ---------------------------------------------------------------- planner

\* faulty variant: the fallback file name is built without the stream's own index
make_worker_tracks_sharedenc(idx, codec) ==
    [idx |-> idx, ch |-> NoCh, codec |-> codec, is_pcm |-> FALSE,
     out |-> TrackName(idx, codec_to_extension(codec)),
     encoder |-> enc_map(codec)[1],
     out_enc |-> TrackName(0, enc_map(codec)[2])]

\* make_worker(idx, codec) of extract_all_audio_streams_best_effort: the closure's
\* captured values.  out is out_copy, the path of the gate and of the copy attempt;
\* out_enc is the path of the re-encode fallback.
make_worker_tracks(idx, codec) ==
    [idx |-> idx, ch |-> NoCh, codec |-> codec, is_pcm |-> FALSE,
     out |-> TrackName(idx, codec_to_extension(codec)),
     encoder |-> enc_map(codec)[1],
     out_enc |-> TrackName(idx, enc_map(codec)[2])]

\* faulty variant: the channel index is left out of the file name
make_worker_split_noch(s_idx, ch, codec) ==
    LET is_pcm == codec \in pcm_codecs
        ext == IF is_pcm THEN codec_to_extension(codec) ELSE "m4a"
        out_path == TrackName(s_idx, ext)
    IN  [idx |-> s_idx, ch |-> ch, codec |-> codec, is_pcm |-> is_pcm,
         out |-> out_path, encoder |-> "aac", out_enc |-> out_path]

\* make_worker(s_idx, ch, codec) of split_channels_best_effort
make_worker_split(s_idx, ch, codec) ==
    LET is_pcm == codec \in pcm_codecs
        ext == IF is_pcm THEN codec_to_extension(codec) ELSE "m4a"
        out_path == ChannelName(s_idx, ch, ext)
    IN  [idx |-> s_idx, ch |-> ch, codec |-> codec, is_pcm |-> is_pcm,
         out |-> out_path, encoder |-> "aac", out_enc |-> out_path]

\* for idx, s in enumerate(streams): tasks.append(make_worker(idx, codec))
TrackTasks(ss) ==
    [k \in 1..Len(ss) |-> make_worker_tracks(k - 1, ss[k].codec_name)]

\* faulty variant: a one-channel stream is not split
ChannelTasksSkipMono(s_idx, s) ==
    IF s.channels <= 1 THEN <<>>
    ELSE [c \in 1..s.channels |-> make_worker_split(s_idx, c - 1, s.codec_name)]

\* faulty variant: the channels of a stream are planned from the last to the first
ChannelTasksDescending(s_idx, s) ==
    IF s.channels <= 0 THEN <<>>
    ELSE [c \in 1..s.channels |->
             make_worker_split(s_idx, s.channels - c, s.codec_name)]

\* the channels of one stream: for ch in range(channels)
ChannelTasks(s_idx, s) ==
    IF s.channels <= 0 THEN <<>>
    ELSE [c \in 1..s.channels |-> make_worker_split(s_idx, c - 1, s.codec_name)]

\* for s_idx, s in enumerate(streams): ... for ch in range(channels): tasks.append(...)
RECURSIVE SplitTasksFrom(_, _)
SplitTasksFrom(ss, k) ==
    IF k > Len(ss) THEN <<>>
    ELSE ChannelTasks(k - 1, ss[k]) \o SplitTasksFrom(ss, k + 1)

SplitTasks(ss) == SplitTasksFrom(ss, 1)

Plan(f, ss) == IF f = "tracks" THEN TrackTasks(ss) ELSE SplitTasks(ss)

\* faulty variant: only a missing or zero max_workers selects the host's parallelism
WorkerCountNegative(mw, cpu) ==
    IF mw = 0
    THEN LET n == IF cpu = 0 THEN DefaultCpuCount ELSE cpu
         IN  IF n > MinWorkers THEN n ELSE MinWorkers
    ELSE mw

\* workers = max(1, (os.cpu_count() or 4)) if not max_workers or max_workers <= 0 else max_workers
WorkerCount(mw, cpu) ==
    IF mw <= 0
    THEN LET n == IF cpu = 0 THEN DefaultCpuCount ELSE cpu
         IN  IF n > MinWorkers THEN n ELSE MinWorkers
    ELSE mw

\* ----------------------------------------------------------------- worker

\* faulty variant: the existence test is made once, when the closure is planned
GateExistsAtPlan(t, now, atplan) == t.out \in atplan

\* os.path.exists(out) inside worker(): the directory as it is when the worker runs
GateExists(t, now, atplan) == t.out \in now

\* faulty variant: the "not" of the gate is lost
SkipsInverted(exists, ow) == exists /\ ow

\* if os.path.exists(out) and not overwrite: return None, "Skipped ..."
Skips(exists, ow) == exists /\ ~ow

\* faulty variant: the whole-track worker re-encodes at once, without trying the copy
FirstCallReencodeFirst(f, t, ow) ==
    IF f = "tracks"
    THEN [form |-> "reencode", out |-> t.out_enc, encoder |-> t.encoder, y |-> ow]
    ELSE IF t.is_pcm
         THEN [form |-> "map_channel", out |-> t.out, encoder |-> "copy", y |-> FALSE]
         ELSE [form |-> "reencode", out |-> t.out, encoder |-> "aac", y |-> FALSE]

\* The first ffmpeg invocation of a worker that passed the gate.
\* form: "copy" (-map 0:a:idx -c:a copy), "map_channel" (-map_channel 0.0.ch),
\* "map_channel_sq" (-map_channel 0:a:s_idx.ch), "reencode" (-c:a encoder).
\* y: whether -y is on the command line.
FirstCall(f, t, ow) ==
    IF f = "tracks"
    THEN [form |-> "copy", out |-> t.out, encoder |-> "copy", y |-> ow]
    ELSE IF t.is_pcm
         THEN [form |-> "map_channel", out |-> t.out, encoder |-> "copy", y |-> FALSE]
         ELSE [form |-> "reencode", out |-> t.out, encoder |-> "aac", y |-> FALSE]

\* faulty variant: a failed whole-track copy is final, no re-encode fallback
HasNextNoFallback(f, t, c, r) ==
    r = "fail" /\ f = "split" /\ c.form = "map_channel"

\* faulty variant: a failed generic channel mapping is final, no stream-qualified attempt
HasNextNoAlt(f, t, c, r) ==
    r = "fail" /\ f = "tracks" /\ c.form = "copy"

\* Whether the worker makes another invocation after call c ended with r, and which.
HasNext(f, t, c, r) ==
    /\ r = "fail"
    /\ \/ f = "tracks" /\ c.form = "copy"
       \/ f = "split" /\ c.form = "map_channel"

\* faulty variant: the second PCM attempt repeats the generic channel mapping
NextCallSameMapping(f, t, c, ow) ==
    IF f = "tracks"
    THEN [form |-> "reencode", out |-> t.out_enc, encoder |-> t.encoder, y |-> ow]
    ELSE [form |-> "map_channel", out |-> t.out, encoder |-> "copy", y |-> FALSE]

\* The invocation that follows the failed call c: the re-encode of a whole-track
\* worker, the stream-qualified channel mapping of a PCM channel worker.
NextCall(f, t, c, ow) ==
    IF f = "tracks"
    THEN [form |-> "reencode", out |-> t.out_enc, encoder |-> t.encoder, y |-> ow]
    ELSE [form |-> "map_channel_sq", out |-> t.out, encoder |-> "copy", y |-> FALSE]

\* faulty variant: the re-encode branch returns out_copy instead of out_enc
OutcomeWrongPath(f, t, c, r) ==
    CASE r = "oserror" -> [kind |-> "exception", path |-> ""]
      [] r = "fail" -> [kind |-> "failed", path |-> ""]
      [] r = "ok" /\ c.form = "reencode" -> [kind |-> "reencode", path |-> t.out]
      [] OTHER -> [kind |-> "copy", path |-> c.out]

\* faulty variant: the failure branch returns the path it tried to write
OutcomeFailedPath(f, t, c, r) ==
    CASE r = "oserror" -> [kind |-> "exception", path |-> ""]
      [] r = "fail" -> [kind |-> "failed", path |-> c.out]
      [] r = "ok" /\ c.form = "reencode" -> [kind |-> "reencode", path |-> c.out]
      [] OTHER -> [kind |-> "copy", path |-> c.out]

\* What the worker returns (or raises) when call c ended with r and no invocation follows.
\* path "" stands for None.
Outcome(f, t, c, r) ==
    CASE r = "oserror" -> [kind |-> "exception", path |-> ""]
      [] r = "fail" -> [kind |-> "failed", path |-> ""]
      [] r = "ok" /\ c.form = "reencode" -> [kind |-> "reencode", path |-> c.out]
      [] OTHER -> [kind |-> "copy", path |-> c.out]

\* ffmpeg refuses to replace an existing file unless -y is given
EngineCanSucceed(c, dir) == c.y \/ c.out \notin dir

\* ------------------------------------------------------------------ state

Pending == [state |-> "PENDING", kind |-> "none", path |-> ""]
Running == [state |-> "RUNNING", kind |-> "none", path |-> ""]
Finished(o) == [state |-> "FINISHED", kind |-> o.kind, path |-> o.path]

TaskIds == 1..Len(tasks)
NumRunning == Cardinality({i \in TaskIds : fut[i].state = "RUNNING"})
\* faulty variant: a finished future counts as gathered, its result is never read
CollectedEarly == {i \in TaskIds : fut[i].state = "FINISHED"}

\* the tasks whose future the as_completed loop has consumed
Collected == {msgs[k].task : k \in 1..Len(msgs)}
AllFinished == \A i \in TaskIds : fut[i].state = "FINISHED"

\* the stream descriptors a probe reports in the model: a compressed codec and a PCM
\* codec with every channel count, and a codec whose fallback encoder is not aac
StreamSet ==
    [codec_name : {"aac", "pcm_s16le"}, channels : 0..MaxChannels]
        \cup {[codec_name |-> "flac", channels |-> MaxChannels]}

RECURSIVE SeqsUpTo(_, _)
SeqsUpTo(S, n) ==
    IF n = 0 THEN {<<>>}
    ELSE LET shorter == SeqsUpTo(S, n - 1)
         IN  shorter \cup {Append(q, x) : q \in {p \in shorter : Len(p) = n - 1}, x \in S}

\* every name a planned task may write
Targets(f, ss) ==
    {Plan(f, ss)[k].out : k \in 1..Len(Plan(f, ss))}
        \cup {Plan(f, ss)[k].out_enc : k \in 1..Len(Plan(f, ss))}

\* The state before a call on one container; env is the number of changes other
\* programs may still make to output_dir.
Start(env) ==
    /\ cur = 1
    /\ fn \in {"tracks", "split"}
    /\ streams \in {ss \in SeqsUpTo(StreamSet, MaxStreams) : Len(Plan(fn, ss)) <= MaxTasks}
    /\ overwrite \in BOOLEAN
    /\ \E pa \in PoolArgs : max_workers = pa[1] /\ cpu_count = pa[2]
    /\ fs \in {d \in SUBSET Targets(fn, streams) : Cardinality(d) <= MaxExisting}
    /\ pc = "idle"
    /\ workers = 0
    /\ tasks = <<>>
    /\ fut = <<>>
    /\ calls = <<>>
    /\ gate = <<>>
    /\ msgs = <<>>
    /\ created = <<>>
    /\ dir0 = {}
    /\ run = 1
    /\ first = <<>>
    /\ probe = "none"
    /\ dir_ok = (fs # {})
    /\ envLeft = env
    /\ files = <<streams>>
    /\ log = <<>>
    /\ OthersOff

Init == Start(0)

\* faulty variant: a failure of os.makedirs is swallowed and the tasks are submitted
EarlyReturnIgnoresMkdir(f, ss, planned, mkdir_ok) ==
    IF ss = <<>> THEN "NoAudioStreams"
    ELSE IF f = "split" /\ planned = <<>> THEN "NoChannels"
    ELSE "none"

\* The early returns before the pool: "if not streams", "if not tasks" (split only),
\* and the except branch of os.makedirs; "none" when the tasks are submitted.
EarlyReturn(f, ss, planned, mkdir_ok) ==
    IF ss = <<>> THEN "NoAudioStreams"
    ELSE IF f = "split" /\ planned = <<>> THEN "NoChannels"
    ELSE IF ~mkdir_ok THEN "CannotCreateDir"
    ELSE "none"

\* The function from the probe's answer to the submission of every task (or to an
\* early return).  mkdir_ok: whether os.makedirs(output_dir, exist_ok=True) succeeds.
Enter(mkdir_ok) ==
    LET planned == Plan(fn, streams)
        err == EarlyReturn(fn, streams, planned, mkdir_ok)
    IN  /\ probe' = "ok"
        /\ dir_ok' = (dir_ok \/ (streams # <<>> /\ ~(fn = "split" /\ planned = <<>>)
                                    /\ mkdir_ok))
        /\ IF err # "none"
           THEN /\ msgs' = <<[task |-> 0, kind |-> err]>>
                /\ pc' = "returned"
                /\ UNCHANGED <<workers, tasks, fut, calls, gate>>
           ELSE /\ msgs' = <<>>
                /\ workers' = WorkerCount(max_workers, cpu_count)
                /\ tasks' = planned
                /\ fut' = [i \in 1..Len(planned) |-> Pending]
                /\ calls' = [i \in 1..Len(planned) |-> <<>>]
                /\ gate' = [i \in 1..Len(planned) |-> "none"]
                /\ pc' = "pool"

\* extract_all_audio_streams_best_effort / split_channels_best_effort are called.
\* ffprobe_audio_streams either answers (the streams, or [] when ffprobe exits with an
\* error or prints no JSON) or raises the OSError of a process that cannot be started,
\* which nothing catches.  os.makedirs cannot fail on a directory that exists.
Call ==
    /\ pc = "idle"
    /\ \E probe_ok \in BOOLEAN, mkdir_ok \in BOOLEAN :
          /\ dir_ok => mkdir_ok
          /\ IF probe_ok
             THEN Enter(mkdir_ok)
             ELSE /\ probe' = "oserror"
                  /\ pc' = "raised"
                  /\ UNCHANGED <<workers, tasks, fut, calls, gate, msgs, dir_ok>>
    /\ created' = <<>>
    /\ dir0' = fs
    /\ UNCHANGED <<fn, streams, overwrite, max_workers, cpu_count, fs, run, first, batch>>

\* A pool thread takes the next queued task (FIFO) and runs worker() up to its first
\* ffmpeg invocation: the existence gate, then either the skip or the launch.
WorkerStart(i) ==
    /\ pc \in {"pool", "unwinding"}
    /\ i \in TaskIds
    /\ fut[i].state = "PENDING"
    /\ \A j \in 1..(i - 1) : fut[j].state # "PENDING"
    /\ NumRunning < workers
    /\ LET exists == GateExists(tasks[i], fs, dir0)
       IN  /\ gate' = [gate EXCEPT ![i] = IF exists THEN "exists" ELSE "absent"]
           /\ IF Skips(exists, overwrite)
              THEN /\ fut' = [fut EXCEPT ![i] = Finished([kind |-> "skipped", path |-> ""])]
                   /\ calls' = calls
              ELSE /\ fut' = [fut EXCEPT ![i] = Running]
                   /\ calls' = [calls EXCEPT ![i] =
                          <<[call |-> FirstCall(fn, tasks[i], overwrite), res |-> "running"]>>]
    /\ UNCHANGED <<fn, streams, overwrite, max_workers, cpu_count, fs, pc, workers, tasks,
                   msgs, created, dir0, run, first, probe,
                   dir_ok, batch>>

\* The ffmpeg invocation in flight for task i ends with r; worker() goes on to its next
\* invocation or returns / raises.
EngineExit(i, r) ==
    /\ i \in TaskIds
    /\ fut[i].state = "RUNNING"
    /\ LET n == Len(calls[i])
           c == calls[i][n].call
           ended == [calls[i] EXCEPT ![n].res = r]
       IN  /\ r = "ok" => EngineCanSucceed(c, fs)
           /\ fs' = IF r = "ok" THEN fs \cup {c.out} ELSE fs
           /\ IF HasNext(fn, tasks[i], c, r)
              THEN /\ calls' = [calls EXCEPT ![i] =
                          Append(ended, [call |-> NextCall(fn, tasks[i], c, overwrite),
                                         res |-> "running"])]
                   /\ fut' = fut
              ELSE /\ calls' = [calls EXCEPT ![i] = ended]
                   /\ fut' = [fut EXCEPT ![i] = Finished(Outcome(fn, tasks[i], c, r))]
    /\ UNCHANGED <<fn, streams, overwrite, max_workers, cpu_count, pc, workers, tasks,
                   gate, msgs, created, dir0, run, first, probe,
                   dir_ok, batch>>

\* One iteration of "for fut in as_completed(futures)": fut.result() either returns the
\* pair, which is appended, or re-raises the worker's exception, which leaves the loop.
Collect(i) ==
    /\ pc = "pool"
    /\ i \in TaskIds
    /\ fut[i].state = "FINISHED"
    /\ i \notin Collected
    /\ IF fut[i].kind = "exception"
       THEN /\ pc' = "unwinding"
            /\ UNCHANGED <<msgs, created>>
       ELSE /\ msgs' = Append(msgs, [task |-> i, kind |-> fut[i].kind])
            /\ created' = IF fut[i].path # "" THEN Append(created, fut[i].path) ELSE created
            /\ pc' = pc
    /\ UNCHANGED <<fn, streams, overwrite, max_workers, cpu_count, fs, workers, tasks,
                   fut, calls, gate, dir0, run, first, probe,
                   dir_ok, batch>>

\* The loop is exhausted, the with-block ends and the function returns created, msgs.
Return ==
    /\ pc = "pool"
    /\ Collected = TaskIds
    /\ pc' = "returned"
    /\ UNCHANGED <<fn, streams, overwrite, max_workers, cpu_count, fs, workers, tasks,
                   fut, calls, gate, msgs, created, dir0, run, first, probe,
                   dir_ok, batch>>

\* The exception leaves the with-block: ThreadPoolExecutor.__exit__ waits for every
\* submitted task (shutdown(wait=True)), then the exception leaves the function.
Raise ==
    /\ pc = "unwinding"
    /\ AllFinished
    /\ pc' = "raised"
    /\ UNCHANGED <<fn, streams, overwrite, max_workers, cpu_count, fs, workers, tasks,
                   fut, calls, gate, msgs, created, dir0, run, first, probe,
                   dir_ok, batch>>

\* The caller invokes the same function again on the same container with the same
\* arguments and the directory as the previous call left it: the probe reports the same
\* streams, so the same closures are planned and submitted.
Rerun ==
    /\ pc = "returned"
    /\ tasks # <<>>
    /\ run < MaxRuns
    /\ run' = run + 1
    /\ first' = IF run = 1 THEN [i \in TaskIds |-> fut[i].kind] ELSE first
    /\ Enter(TRUE)
    /\ created' = <<>>
    /\ dir0' = fs
    /\ UNCHANGED <<fn, streams, overwrite, max_workers, cpu_count, fs, batch>>

Next ==
    \/ Call
    \/ \E i \in 1..MaxTasks : WorkerStart(i)
    \/ \E i \in 1..MaxTasks, r \in {"ok", "fail", "oserror"} : EngineExit(i, r)
    \/ \E i \in 1..MaxTasks : Collect(i)
    \/ Return
    \/ Raise

Spec == Init /\ [][Next]_vars

\* Two calls in a row with overwrite = False on a directory that starts empty.
InitRerun == Init /\ ~overwrite /\ fs = {} /\ max_workers = 0

NextRerun == Next \/ Rerun

SpecRerun == InitRerun /\ [][NextRerun]_vars

\* Another program creates or removes the file a task that has not started yet will
\* test: output_dir is an ordinary directory, nothing locks it during the call.
EnvChange ==
    /\ pc = "pool"
    /\ envLeft > 0
    /\ \E i \in TaskIds :
          /\ fut[i].state = "PENDING"
          /\ fs' = IF tasks[i].out \in fs THEN fs \ {tasks[i].out}
                                         ELSE fs \cup {tasks[i].out}
    /\ envLeft' = envLeft - 1
    /\ UNCHANGED <<fn, streams, overwrite, max_workers, cpu_count, pc, workers, tasks,
                   fut, calls, gate, msgs, created, dir0, run, first, probe, dir_ok,
                   files, cur, log, others>>

\* One call with overwrite = False while the directory changes under it.
InitEnv == Start(MaxEnvChanges) /\ ~overwrite /\ max_workers = 1

NextEnv == Next \/ EnvChange

SpecEnv == InitEnv /\ [][NextEnv]_vars

\* Every pool thread that can take a task does, every ffmpeg process ends, and the
\* calling thread keeps running.
Fairness ==
    /\ WF_vars(Call)
    /\ \A i \in 1..MaxTasks : WF_vars(WorkerStart(i))
    /\ \A i \in 1..MaxTasks : WF_vars(\E r \in {"ok", "fail", "oserror"} : EngineExit(i, r))
    /\ \A i \in 1..MaxTasks : WF_vars(Collect(i))
    /\ WF_vars(Return)
    /\ WF_vars(Raise)

InitLive == Init /\ fs = {}

SpecLive == InitLive /\ [][Next]_vars /\ Fairness

\* --- _extract_tracks / _split_channels: the loop over the target containers

\* the probe result of the container the loop turns to after container k
StreamsAfter(k) == IF k + 1 <= Len(files) THEN files[k + 1] ELSE <<>>

\* "for f in targets": the loop body up to the call of the extraction function.  The
\* loop's own os.makedirs(od, exist_ok=True) either succeeds, or its failure is logged
\* and the loop continues with the next container.
LoopStep ==
    /\ pc = "loop"
    /\ cur <= Len(files)
    /\ \E mkdir_ok \in BOOLEAN :
          /\ dir_ok => mkdir_ok
          /\ IF mkdir_ok
             THEN /\ dir_ok' = TRUE
                  /\ pc' = "idle"
                  /\ UNCHANGED <<streams, cur, log>>
             ELSE /\ log' = Append(log, [file |-> cur, created |-> 0,
                                         msgs |-> <<[task |-> 0, kind |-> "CannotCreateDir"]>>])
                  /\ cur' = cur + 1
                  /\ streams' = StreamsAfter(cur)
                  /\ UNCHANGED <<pc, dir_ok>>
    /\ UNCHANGED <<fn, overwrite, max_workers, cpu_count, fs, workers, tasks, fut, calls,
                   gate, msgs, created, dir0, run, first, probe, envLeft, files, others>>

\* The extraction function returned: its (created, msgs) become the container's log
\* entry and the loop goes on.
BatchAppend ==
    /\ pc = "returned"
    /\ log' = Append(log, [file |-> cur, created |-> Len(created), msgs |-> msgs])
    /\ cur' = cur + 1
    /\ streams' = StreamsAfter(cur)
    /\ pc' = "loop"
    /\ workers' = 0
    /\ tasks' = <<>>
    /\ fut' = <<>>
    /\ calls' = <<>>
    /\ gate' = <<>>
    /\ msgs' = <<>>
    /\ created' = <<>>
    /\ probe' = "none"
    /\ UNCHANGED <<fn, overwrite, max_workers, cpu_count, fs, dir0, run, first, dir_ok,
                   envLeft, files, others>>

\* The extraction function raised: nothing in the loop catches it, so it leaves
\* _extract_tracks / _split_channels and the log list is dropped.
BatchAbort ==
    /\ pc = "raised"
    /\ pc' = "aborted"
    /\ UNCHANGED <<fn, streams, overwrite, max_workers, cpu_count, fs, workers, tasks,
                   fut, calls, gate, msgs, created, dir0, run, first, probe, dir_ok,
                   envLeft, files, cur, log, others>>

\* The loop is exhausted: return "\n\n".join(log).
BatchDone ==
    /\ pc = "loop"
    /\ cur > Len(files)
    /\ pc' = "done"
    /\ UNCHANGED <<fn, streams, overwrite, max_workers, cpu_count, fs, workers, tasks,
                   fut, calls, gate, msgs, created, dir0, run, first, probe, dir_ok,
                   envLeft, files, cur, log, others>>

\* A run over one to MaxFiles containers with at most one audio stream each, into
\* one output directory that starts empty.
InitBatch ==
    /\ cur = 1
    /\ fn \in {"tracks", "split"}
    /\ files \in {q \in SeqsUpTo(SeqsUpTo(StreamSet, 1), MaxFiles) : Len(q) >= 1}
    /\ streams = files[1]
    /\ overwrite = FALSE
    /\ max_workers = 0
    /\ cpu_count = 0
    /\ fs = {}
    /\ pc = "loop"
    /\ workers = 0
    /\ tasks = <<>>
    /\ fut = <<>>
    /\ calls = <<>>
    /\ gate = <<>>
    /\ msgs = <<>>
    /\ created = <<>>
    /\ dir0 = {}
    /\ run = 1
    /\ first = <<>>
    /\ probe = "none"
    /\ dir_ok = FALSE
    /\ envLeft = 0
    /\ log = <<>>
    /\ OthersOff

NextBatch == Next \/ LoopStep \/ BatchAppend \/ BatchAbort \/ BatchDone

SpecBatch == InitBatch /\ [][NextBatch]_vars

\* --- the other programs of the repository

Range(q) == {q[k] : k \in 1..Len(q)}

\* the variables of the extraction functions
audio == <<fn, streams, overwrite, max_workers, cpu_count, fs, pc, workers, tasks,
           fut, calls, gate, msgs, created, dir0, run, first, probe, dir_ok,
           envLeft, files, cur, log>>

\* no extraction call is made
AudioOff ==
    /\ cur = 1
    /\ fn = "tracks"
    /\ streams = <<>>
    /\ overwrite = FALSE
    /\ max_workers = 0
    /\ cpu_count = 0
    /\ fs = {}
    /\ pc = "off"
    /\ workers = 0
    /\ tasks = <<>>
    /\ fut = <<>>
    /\ calls = <<>>
    /\ gate = <<>>
    /\ msgs = <<>>
    /\ created = <<>>
    /\ dir0 = {}
    /\ run = 1
    /\ first = <<>>
    /\ probe = "none"
    /\ dir_ok = FALSE
    /\ envLeft = 0
    /\ files = <<>>
    /\ log = <<>>

\* --- process_videos_in_directory, extract_audio, add_album_art

\* the stems of the video files the input directory may hold
Videos == {"v" \o Dec(k) : k \in 1..MaxVideos}

\* Path(input_directory).glob(...): the files of S, in directory order
VideoSeq(S) == SelectSeq([k \in 1..MaxVideos |-> "v" \o Dec(k)], LAMBDA v : v \in S)

\* if selected_files: video_files = [p for p in video_files if p.name in selected_set]
FilterSelected(found, selected) ==
    IF selected # {} THEN SelectSeq(found, LAMBDA v : v \in selected) ELSE found

\* extract_audio: None when the output exists and overwrite is off, else the result
\* of the ffmpeg invocation; an OSError (get_audio_codec or ffmpeg cannot be
\* started) is the loop's "Error".
ExtractResult(exists, ow, res) ==
    IF res = "oserror" THEN "error"
    ELSE IF exists /\ ~ow THEN "skipped"
    ELSE IF res = "ok" THEN "ok" ELSE "failed"

\* add_album_art(audio_file, image_file) on an audio file with the given content and
\* '.tmp' file: ffmpeg muxes into the '.tmp' file (-y), os.replace moves it over the
\* audio file; CalledProcessError removes the '.tmp' file and returns False; an
\* OSError of subprocess.run or of os.replace is not caught.
add_album_art(content, tmp, mux, replace_ok) ==
    CASE mux = "oserror" -> [audio |-> content, tmp |-> tmp, ret |-> "raised"]
      [] mux = "fail" -> [audio |-> content, tmp |-> "none", ret |-> "False"]
      [] mux = "ok" /\ replace_ok -> [audio |-> "muxed", tmp |-> "none", ret |-> "True"]
      [] OTHER -> [audio |-> content, tmp |-> "muxed", ret |-> "raised"]

\* faulty variant: the directories are not compared before the original is deleted
DeletesOriginalAnyDir(delete_original_video, same_dir) == delete_original_video

\* if delete_original_video and input_directory == output_directory
DeletesOriginal(delete_original_video, same_dir) == delete_original_video /\ same_dir

InitVideos ==
    /\ AudioOff
    /\ ct = [pc |-> "off"]
    /\ mp = [pc |-> "off"]
    /\ \E present \in SUBSET Videos, existing \in SUBSET Videos, stale \in SUBSET Videos,
          selected \in SUBSET Videos, del \in BOOLEAN, same \in BOOLEAN,
          ow \in BOOLEAN, cover \in BOOLEAN :
          pv = [pc |-> "idle",
                present0 |-> present,
                present |-> present,
                content |-> [v \in Videos |-> IF v \in existing THEN "old" ELSE "none"],
                tmp |-> [v \in Videos |-> IF v \in stale THEN "stale" ELSE "none"],
                selected_files |-> selected,
                delete_original_video |-> del,
                same_dir |-> same,
                overwrite_existing_files |-> ow,
                use_cover |-> cover,
                video_files |-> <<>>,
                i |-> 0,
                result |-> [v \in Videos |-> "none"],
                mux |-> [v \in Videos |-> "none"],
                before |-> [v \in Videos |-> "none"],
                art |-> [v \in Videos |-> "none"],
                deleted |-> {}]

\* process_videos_in_directory up to its loop: the output directory is created, the
\* videos are listed and filtered by the selection; each early return ends the call.
PvStart ==
    /\ pv.pc = "idle"
    /\ \E mkdir_ok \in BOOLEAN :
          LET found == VideoSeq(pv.present)
              vf == FilterSelected(found, pv.selected_files)
          IN  pv' = IF ~mkdir_ok \/ vf = <<>>
                    THEN [pv EXCEPT !.pc = "returned"]
                    ELSE [pv EXCEPT !.pc = "loop", !.video_files = vf, !.i = 1]
    /\ UNCHANGED <<audio, ct, mp>>

\* One iteration of the loop over video_files.  res: how the extraction's ffmpeg
\* ends; img: extract_first_frame's result; mux, replace_ok: inside add_album_art;
\* unlink_ok: whether video_file.unlink() succeeds.
PvProcess(res, img, mux, replace_ok, unlink_ok) ==
    /\ pv.pc = "loop"
    /\ pv.i <= Len(pv.video_files)
    /\ LET v == pv.video_files[pv.i]
           r == ExtractResult(pv.content[v] # "none", pv.overwrite_existing_files, res)
           plain == IF r = "ok" THEN "plain" ELSE pv.content[v]
           embeds == r = "ok" /\ pv.use_cover /\ img = "ok"
           a == add_album_art(plain, pv.tmp[v], mux, replace_ok)
           raised == r = "ok" /\ pv.use_cover
                        /\ (img = "oserror" \/ (img = "ok" /\ a.ret = "raised"))
           deletes == /\ r = "ok"
                      /\ ~raised
                      /\ DeletesOriginal(pv.delete_original_video, pv.same_dir)
                      /\ unlink_ok
       IN  pv' = [pv EXCEPT
                    !.result[v] = r,
                    !.before[v] = IF embeds THEN plain ELSE @,
                    !.mux[v] = IF embeds THEN mux ELSE @,
                    !.art[v] = IF embeds THEN a.ret ELSE @,
                    !.content[v] = IF embeds THEN a.audio ELSE plain,
                    !.tmp[v] = IF embeds THEN a.tmp ELSE @,
                    !.present = IF deletes THEN @ \ {v} ELSE @,
                    !.deleted = IF deletes THEN @ \cup {v} ELSE @,
                    !.i = @ + 1]
    /\ UNCHANGED <<audio, ct, mp>>

\* the loop is exhausted and the status text is returned
PvReturn ==
    /\ pv.pc = "loop"
    /\ pv.i > Len(pv.video_files)
    /\ pv' = [pv EXCEPT !.pc = "returned"]
    /\ UNCHANGED <<audio, ct, mp>>

NextVideos ==
    \/ PvStart
    \/ \E res \in {"ok", "fail", "oserror"}, img \in {"ok", "none", "oserror"},
          mux \in {"ok", "fail", "oserror"}, replace_ok \in BOOLEAN, unlink_ok \in BOOLEAN :
          PvProcess(res, img, mux, replace_ok, unlink_ok)
    \/ PvReturn

SpecVideos == InitVideos /\ [][NextVideos]_vars

\* --- combo_tracker.py: ComboTrackerApp

\* the keys a user presses and saves in combos
Keys == {"a", "s"}

\* the key lists add_combo can store: at least one key
Combos == {c \in SeqsUpTo(Keys, MaxComboLen) : Len(c) >= 1}

\* __init__: no combo is active, both threads are idle
InitCombo ==
    /\ AudioOff
    /\ pv = [pc |-> "off"]
    /\ mp = [pc |-> "off"]
    /\ ct = [pc |-> "idle", ui |-> "idle", active_combo_keys |-> <<>>,
             current_index |-> 0, pressed_key |-> "", target_key |-> ""]

\* on_key_press, the listener thread: "if not self.active_combo_keys: return",
\* pressed_key = self.normalize_key(key)
KeyPress(key) ==
    /\ ct.pc = "idle"
    /\ ct' = IF ct.active_combo_keys = <<>> THEN ct
             ELSE [ct EXCEPT !.pc = "target", !.pressed_key = key]
    /\ UNCHANGED <<audio, pv, mp>>

\* target_key = self.active_combo_keys[self.current_index]: an index outside the
\* list raises IndexError, which ends the callback
ReadTarget ==
    /\ ct.pc = "target"
    /\ ct' = IF ct.current_index < Len(ct.active_combo_keys)
             THEN [ct EXCEPT !.pc = "branch",
                             !.target_key = ct.active_combo_keys[ct.current_index + 1]]
             ELSE [ct EXCEPT !.pc = "error"]
    /\ UNCHANGED <<audio, pv, mp>>

\* "if self.current_index == 0" and the comparison of the pressed key with the
\* target: a wrong first key is ignored, a wrong later key resets the index
Branch ==
    /\ ct.pc = "branch"
    /\ ct' = IF ct.current_index = 0
             THEN IF ct.pressed_key = ct.target_key
                  THEN [ct EXCEPT !.pc = "inc_first"]
                  ELSE [ct EXCEPT !.pc = "idle"]
             ELSE IF ct.pressed_key = ct.target_key
                  THEN [ct EXCEPT !.pc = "inc"]
                  ELSE [ct EXCEPT !.pc = "idle", !.current_index = 0]
    /\ UNCHANGED <<audio, pv, mp>>

\* self.current_index += 1, in the first-key branch (the callback then returns) and
\* in the later-key branch (the completion test follows)
Increment ==
    /\ ct.pc \in {"inc_first", "inc"}
    /\ ct' = [ct EXCEPT !.current_index = @ + 1,
                        !.pc = IF ct.pc = "inc_first" THEN "idle" ELSE "finish"]
    /\ UNCHANGED <<audio, pv, mp>>

\* if self.current_index >= len(self.active_combo_keys): self.current_index = 0
Finish ==
    /\ ct.pc = "finish"
    /\ ct' = [ct EXCEPT !.pc = "idle",
                        !.current_index =
                            IF @ >= Len(ct.active_combo_keys) THEN 0 ELSE @]
    /\ UNCHANGED <<audio, pv, mp>>

\* set_active_combo on the UI thread (from the selector or at the end of add_combo):
\* self.active_combo_keys = self.combos[name]
UiSelect(c) ==
    /\ ct.ui = "idle"
    /\ ct' = [ct EXCEPT !.ui = "reset", !.active_combo_keys = c]
    /\ UNCHANGED <<audio, pv, mp>>

\* reset_tracking: self.current_index = 0
UiReset ==
    /\ ct.ui = "reset"
    /\ ct' = [ct EXCEPT !.ui = "idle", !.current_index = 0]
    /\ UNCHANGED <<audio, pv, mp>>

NextCombo ==
    \/ \E key \in Keys : KeyPress(key)
    \/ ReadTarget
    \/ Branch
    \/ Increment
    \/ Finish
    \/ \E c \in Combos : UiSelect(c)
    \/ UiReset

SpecCombo == InitCombo /\ [][NextCombo]_vars

\* --- "Video to mp3.py": convert_one and main

\* the stems of the *.mp4 files the current directory may hold
Mp4s == {"m" \o Dec(k) : k \in 1..MaxMp4}

\* faulty variant: the counter is advanced for every gathered future
DoneAfterAlways(done, raised) == done + 1

\* try: fut.result() / except Exception: print / else: done += 1
DoneAfter(done, raised) == IF raised THEN done ELSE done + 1

\* main up to the pool: dst_dir exists, the *.mp4 files are listed; stale holds the
\* cover images an earlier run left in dst_dir
InitMp3 ==
    /\ AudioOff
    /\ pv = [pc |-> "off"]
    /\ ct = [pc |-> "off"]
    /\ \E found \in SUBSET Mp4s, stale \in SUBSET Mp4s, j \in 1..MaxJobs :
          mp = [pc |-> "idle", jobs |-> j, mp4s |-> found, jpg |-> stale, mp3 |-> {},
                st |-> [f \in Mp4s |-> "none"],
                frame |-> [f \in Mp4s |-> "none"],
                mux |-> [f \in Mp4s |-> "none"],
                raised |-> [f \in Mp4s |-> FALSE],
                gathered |-> <<>>,
                done |-> 0]

\* main: "if not mp4s: sys.exit(1)", else the pool is built and every file submitted
MpStart ==
    /\ mp.pc = "idle"
    /\ mp' = IF mp.mp4s = {}
             THEN [mp EXCEPT !.pc = "exited"]
             ELSE [mp EXCEPT !.pc = "pool",
                             !.st = [f \in Mp4s |-> IF f \in mp.mp4s THEN "queued" ELSE "none"]]
    /\ UNCHANGED <<audio, pv, ct>>

\* a pool thread takes a queued convert_one and starts its first ffmpeg (the frame)
MpBegin(f) ==
    /\ mp.pc = "pool"
    /\ mp.st[f] = "queued"
    /\ Cardinality({g \in Mp4s : mp.st[g] \in {"frame", "mux", "finally"}}) < mp.jobs
    /\ mp' = [mp EXCEPT !.st[f] = "frame"]
    /\ UNCHANGED <<audio, pv, ct>>

\* the frame-grabbing ffmpeg ends: on success the jpg exists and the mux starts; a
\* non-zero exit (which may leave a partial jpg) or a process that cannot be started
\* raises, and control goes to the finally block
MpFrameExit(f, r, left) ==
    /\ mp.st[f] = "frame"
    /\ r = "oserror" => ~left
    /\ r = "ok" => left
    /\ mp' = [mp EXCEPT !.frame[f] = r,
                        !.jpg = IF left THEN @ \cup {f} ELSE @,
                        !.st[f] = IF r = "ok" THEN "mux" ELSE "finally",
                        !.raised[f] = r # "ok"]
    /\ UNCHANGED <<audio, pv, ct>>

\* the muxing ffmpeg ends: on success the mp3 exists; a failure raises
MpMuxExit(f, r) ==
    /\ mp.st[f] = "mux"
    /\ mp' = [mp EXCEPT !.mux[f] = r,
                        !.mp3 = IF r = "ok" THEN @ \cup {f} ELSE @,
                        !.st[f] = "finally",
                        !.raised[f] = r # "ok"]
    /\ UNCHANGED <<audio, pv, ct>>

\* finally: jpg.unlink(missing_ok=True); convert_one returns or re-raises
MpFinally(f) ==
    /\ mp.st[f] = "finally"
    /\ mp' = [mp EXCEPT !.jpg = @ \ {f}, !.st[f] = "finished"]
    /\ UNCHANGED <<audio, pv, ct>>

\* one iteration of "for fut in as_completed(futures)"
MpGather(f) ==
    /\ mp.pc = "pool"
    /\ mp.st[f] = "finished"
    /\ f \notin Range(mp.gathered)
    /\ mp' = [mp EXCEPT !.gathered = Append(@, f),
                        !.done = DoneAfter(@, mp.raised[f])]
    /\ UNCHANGED <<audio, pv, ct>>

\* the loop is exhausted and main returns
MpExit ==
    /\ mp.pc = "pool"
    /\ Range(mp.gathered) = mp.mp4s
    /\ mp' = [mp EXCEPT !.pc = "exited"]
    /\ UNCHANGED <<audio, pv, ct>>

NextMp3 ==
    \/ MpStart
    \/ \E f \in Mp4s : MpBegin(f)
    \/ \E f \in Mp4s, r \in {"ok", "fail", "oserror"}, left \in BOOLEAN : MpFrameExit(f, r, left)
    \/ \E f \in Mp4s, r \in {"ok", "fail", "oserror"} : MpMuxExit(f, r)
    \/ \E f \in Mp4s : MpFinally(f)
    \/ \E f \in Mp4s : MpGather(f)
    \/ MpExit

SpecMp3 == InitMp3 /\ [][NextMp3]_vars

\* ------------------------------------------------------------------ claims

Over == pc \in {"returned", "raised"}
CopyForms == {"copy", "map_channel", "map_channel_sq"}
CallsOf(i, forms) == {k \in 1..Len(calls[i]) : calls[i][k].call.form \in forms}
MsgsOf(i) == {k \in 1..Len(msgs) : msgs[k].task = i}
LastCall(i) == calls[i][Len(calls[i])]

\* The outcome task i has when it runs alone on the directory the call found: the
\* gate on that directory, then its own engine results.
SoloKind(i) ==
    IF tasks[i].out \in dir0 /\ ~overwrite THEN "skipped"
    ELSE IF calls[i] = <<>> THEN "none"
    ELSE IF LastCall(i).res # "ok" THEN "failed"
    ELSE IF LastCall(i).call.form = "reencode" THEN "reencode" ELSE "copy"

\* C1 (task completeness): once a call that planned tasks and started its pool is
\* over, it has returned, and its msgs hold exactly one outcome per planned task,
\* whatever the engine invocations did.
C1_TaskCompleteness ==
    (Over /\ tasks # <<>>) =>
        /\ pc = "returned"
        /\ Len(msgs) = Len(tasks)
        /\ \A i \in TaskIds : Cardinality(MsgsOf(i)) = 1

\* C2 (fault isolation): once the call is over every submitted task has finished; a
\* task that made engine attempts which all failed has the outcome Failed; and every
\* task is reported with the outcome it has when run alone.
C2_FaultIsolation ==
    (Over /\ tasks # <<>>) =>
        \A i \in TaskIds :
            /\ fut[i].state = "FINISHED"
            /\ (calls[i] # <<>> /\ \A k \in 1..Len(calls[i]) : calls[i][k].res # "ok")
                   => fut[i].kind = "failed"
            /\ \E k \in MsgsOf(i) : msgs[k].kind = SoloKind(i)

\* C3 (per-task errors never escape): however an engine invocation fails, the task's
\* future holds an outcome value, never an exception, and no exception leaves the
\* thread-pool section of the call.
C3_ErrorsCaptured ==
    /\ tasks # <<>> => pc \notin {"unwinding", "raised"}
    /\ \A i \in TaskIds : fut[i].kind # "exception"

\* C4 (existence gate): a task that found its output path existing at the gate while
\* overwrite is false is Skipped at once, has made no engine invocation, returns no
\* path, and none of its paths is in created.
C4_ExistenceGate ==
    \A i \in TaskIds :
        (gate[i] = "exists" /\ ~overwrite) =>
            /\ fut[i] = Finished([kind |-> "skipped", path |-> ""])
            /\ calls[i] = <<>>
            /\ tasks[i].out \notin Range(created)
            /\ tasks[i].out_enc \notin Range(created)
            /\ \A k \in MsgsOf(i) : msgs[k].kind = "skipped"

\* C4 witness: a call has returned in which one task was skipped at the gate and
\* reported, while another task created a file.
C4_Witness ==
    /\ pc = "returned"
    /\ created # <<>>
    /\ \E i \in TaskIds :
          gate[i] = "exists" /\ ~overwrite /\ fut[i].kind = "skipped" /\ MsgsOf(i) # {}

\* C5 (idempotence): in a second call with overwrite = False, every task whose
\* first-call outcome was a success (via copy or via re-encode) or a skip is Skipped
\* as soon as it executes.
C5_Idempotent ==
    (run = 2 /\ ~overwrite) =>
        \A i \in TaskIds :
            (first[i] \in {"copy", "reencode", "skipped"} /\ fut[i].state # "PENDING")
                => fut[i].kind = "skipped"

\* C6 (path uniqueness): for every probe result, two different planned tasks never
\* share an output path: neither the gate / copy path nor any path a task may write.
C6_PathUniqueness ==
    LET P == Plan(fn, streams)
    IN  /\ tasks # <<>> => tasks = P
        /\ \A i, j \in 1..Len(P) :
              i # j => /\ P[i].out # P[j].out
                       /\ {P[i].out, P[i].out_enc} \cap {P[j].out, P[j].out_enc} = {}

\* C6 witness: two channel tasks of one call are in flight at the same time.
C6_Witness ==
    /\ fn = "split"
    /\ \E i, j \in TaskIds :
          i # j /\ fut[i].state = "RUNNING" /\ fut[j].state = "RUNNING"

\* C7 as stated: every engine attempt of a task writes to the path the gate tests,
\* and a task records no other path.
C7_OnePath ==
    \A i \in TaskIds :
        /\ \A k \in 1..Len(calls[i]) : calls[i][k].call.out = tasks[i].out
        /\ fut[i].path \in {"", tasks[i].out}

\* the path of the re-encode attempt of task t
ReencodeTarget(t) ==
    IF fn = "tracks" THEN TrackName(t.idx, enc_map(t.codec)[2]) ELSE t.out

\* C7 amended: the copy attempts of a task write to the path the gate tests, and a
\* success via copy records that path; the re-encode attempt writes to, and a success
\* via re-encode records, the re-encode target: for a whole-track task the name with
\* the fallback encoder's extension, for a per-channel task the gate path. Every
\* recorded path is in created once the task is collected.
C7_PathsAmended ==
    \A i \in TaskIds :
        /\ \A k \in CallsOf(i, CopyForms) : calls[i][k].call.out = tasks[i].out
        /\ \A k \in CallsOf(i, {"reencode"}) : calls[i][k].call.out = ReencodeTarget(tasks[i])
        /\ fut[i].kind = "copy" => fut[i].path = tasks[i].out
        /\ fut[i].kind = "reencode" => fut[i].path = ReencodeTarget(tasks[i])
        /\ fut[i].kind \notin {"copy", "reencode"} => fut[i].path = ""
        /\ (MsgsOf(i) # {} /\ fut[i].path # "") => fut[i].path \in Range(created)

\* C7 witness: a whole-track task succeeded via re-encode, recorded a path that is
\* not the path its gate tested, and the call returned it in created.
C7_Witness ==
    /\ pc = "returned"
    /\ \E i \in TaskIds :
          /\ fut[i].kind = "reencode"
          /\ fut[i].path # tasks[i].out
          /\ fut[i].path \in Range(created)

\* C8 as stated: a task whose copy attempts all exited with a failure made exactly one
\* re-encode attempt, and no task exceeds the fixed step sequence.
C8_BoundedFallback ==
    \A i \in TaskIds :
        LET copies == CallsOf(i, CopyForms)
            encs == CallsOf(i, {"reencode"})
        IN  /\ Cardinality(encs) <= 1
            /\ Cardinality(copies) <= 2
            /\ (fut[i].state = "FINISHED" /\ copies # {}
                    /\ \A k \in copies : calls[i][k].res = "fail")
                   => Cardinality(encs) = 1

\* C8 amended: no task makes more than two engine invocations. A whole-track task
\* starts with a copy attempt, and a re-encode attempt follows exactly when the copy
\* exited with a failure. A per-channel PCM task starts with the generic mapping, the
\* stream-qualified mapping follows exactly when the generic one exited with a
\* failure, and it never re-encodes. A compressed per-channel task makes one
\* re-encode attempt. An attempt that could not be started is the task's last.
C8_BoundedFallbackAmended ==
    \A i \in TaskIds :
        LET n == Len(calls[i])
            second == IF fn = "tracks" THEN "reencode" ELSE "map_channel_sq"
        IN  /\ n <= 2
            /\ n >= 1 => calls[i][1].call.form = FirstCall(fn, tasks[i], overwrite).form
            /\ (fn = "split" /\ ~tasks[i].is_pcm) =>
                   (n <= 1 /\ CallsOf(i, CopyForms) = {})
            /\ (fn = "tracks" \/ tasks[i].is_pcm) =>
                   /\ n >= 1 => calls[i][1].call.form \in {"copy", "map_channel"}
                   /\ n = 2 <=> (n >= 1 /\ calls[i][1].res = "fail")
                   /\ n = 2 => calls[i][2].call.form = second
            /\ (fn = "split" /\ tasks[i].is_pcm) => CallsOf(i, {"reencode"}) = {}

\* C8 witness: a whole-track task whose copy attempt failed has finished after its
\* single re-encode attempt.
C8_Witness ==
    /\ fn = "tracks"
    /\ \E i \in TaskIds :
          /\ fut[i].state = "FINISHED"
          /\ Len(calls[i]) = 2
          /\ calls[i][1].res = "fail"
          /\ calls[i][2].call.form = "reencode"

\* C9 as stated: a task is Failed only if it made a re-encode attempt that failed.
C9_FailedOnlyAfterReencode ==
    \A i \in TaskIds :
        fut[i].kind = "failed" =>
            \E k \in CallsOf(i, {"reencode"}) : calls[i][k].res = "fail"

\* C9 amended: a task is Failed only if its last attempt exited with a failure; for a
\* whole-track and for a compressed per-channel task that attempt is a re-encode (for
\* a whole-track task it follows the failed copy), for a per-channel PCM task it is
\* the stream-qualified copy that follows the failed generic copy.
C9_FailedOnlyAfterLastStep ==
    \A i \in TaskIds :
        fut[i].kind = "failed" =>
            /\ calls[i] # <<>>
            /\ \A k \in 1..Len(calls[i]) : calls[i][k].res = "fail"
            /\ IF fn = "split" /\ tasks[i].is_pcm
               THEN Len(calls[i]) = 2 /\ LastCall(i).call.form = "map_channel_sq"
               ELSE LastCall(i).call.form = "reencode"
            /\ fn = "tracks" => Len(calls[i]) = 2

\* C9 witness: a per-channel PCM task is Failed after both copy forms failed, without
\* any re-encode attempt.
C9_Witness ==
    \E i \in TaskIds :
        /\ fn = "split"
        /\ tasks[i].is_pcm
        /\ fut[i].kind = "failed"
        /\ CallsOf(i, {"reencode"}) = {}

\* C10 (compressed per-channel tasks): a per-channel task of a multi-channel track
\* whose codec is not PCM makes no copy attempt; its only invocation is a re-encode
\* with the aac encoder; and it ends SucceededViaReencode if that invocation
\* succeeded and Failed otherwise.
C10_CompressedChannel ==
    \A i \in TaskIds :
        (fn = "split" /\ ~tasks[i].is_pcm /\ streams[tasks[i].idx + 1].channels > 1) =>
            /\ CallsOf(i, CopyForms) = {}
            /\ Len(calls[i]) <= 1
            /\ \A k \in 1..Len(calls[i]) :
                  calls[i][k].call.form = "reencode" /\ calls[i][k].call.encoder = "aac"
            /\ (fut[i].state = "FINISHED" /\ calls[i] # <<>>) =>
                  fut[i].kind = IF LastCall(i).res = "ok" THEN "reencode" ELSE "failed"

\* C11 (step order): a worker first tests its output path, then invokes the engine,
\* one invocation at a time.  For a whole-track task and for a per-channel PCM task,
\* a re-encode invocation is never the first one: the invocation before it is a copy
\* attempt of the same task that has ended with a failure.  A task has an outcome
\* other than Skipped only after an engine invocation of its own has ended.
C11_StepOrder ==
    \A i \in TaskIds :
        /\ fut[i].state = "PENDING" => (gate[i] = "none" /\ calls[i] = <<>>)
        /\ calls[i] # <<>> =>
              (gate[i] # "none" /\ ~(gate[i] = "exists" /\ ~overwrite))
        /\ \A k \in 1..Len(calls[i]) :
              calls[i][k].res = "running" => (k = Len(calls[i]) /\ fut[i].state = "RUNNING")
        /\ (fn = "tracks" \/ tasks[i].is_pcm) =>
              \A k \in CallsOf(i, {"reencode"}) :
                  /\ k > 1
                  /\ calls[i][k - 1].call.form \in CopyForms
                  /\ calls[i][k - 1].res = "fail"
        /\ (fut[i].state = "FINISHED" /\ fut[i].kind # "skipped") =>
              (calls[i] # <<>> /\ LastCall(i).res # "running")

\* C11 witness: the re-encode of a whole-track task is running after the task
\* passed the gate and its copy attempt failed.
C11_Witness ==
    \E i \in TaskIds :
        /\ fn = "tracks"
        /\ gate[i] = "absent"
        /\ Len(calls[i]) = 2
        /\ calls[i][1].call.form = "copy" /\ calls[i][1].res = "fail"
        /\ calls[i][2].call.form = "reencode" /\ calls[i][2].res = "running"

\* C12 as stated: a per-channel PCM task tries the generic mapping first and the
\* stream-qualified mapping only after the generic one failed, and when both have
\* failed it goes on to a re-encode instead of ending.
C12_PcmFallsThrough ==
    \A i \in TaskIds :
        (fn = "split" /\ tasks[i].is_pcm) =>
            /\ calls[i] # <<>> => calls[i][1].call.form = "map_channel"
            /\ \A k \in CallsOf(i, {"map_channel_sq"}) :
                  k = 2 /\ calls[i][1].res = "fail"
            /\ (Len(calls[i]) >= 2 /\ calls[i][1].res = "fail" /\ calls[i][2].res = "fail")
                  => (fut[i].kind # "failed" /\ CallsOf(i, {"reencode"}) # {})

\* C12 amended: a per-channel PCM task tries the generic mapping first; the
\* stream-qualified mapping is its second invocation and is made exactly when the
\* generic one exited with a failure; the success of either form ends the task as a
\* success via copy at the gate path; when both forms have failed the task ends
\* Failed there, and it never re-encodes.
C12_PcmEndsAfterBothForms ==
    \A i \in TaskIds :
        (fn = "split" /\ tasks[i].is_pcm) =>
            LET n == Len(calls[i])
            IN  /\ n <= 2
                /\ n >= 1 => calls[i][1].call.form = "map_channel"
                /\ n = 2 <=> (n >= 1 /\ calls[i][1].res = "fail")
                /\ n = 2 => calls[i][2].call.form = "map_channel_sq"
                /\ CallsOf(i, {"reencode"}) = {}
                /\ (fut[i].state = "FINISHED" /\ n >= 1 /\ LastCall(i).res = "ok")
                      => fut[i] = Finished([kind |-> "copy", path |-> tasks[i].out])
                /\ (n = 2 /\ calls[i][2].res = "fail")
                      => fut[i] = Finished([kind |-> "failed", path |-> ""])

\* C12 witness: a per-channel PCM task succeeded via copy with the stream-qualified
\* mapping after the generic mapping failed.
C12_Witness ==
    \E i \in TaskIds :
        /\ fn = "split"
        /\ tasks[i].is_pcm
        /\ Len(calls[i]) = 2
        /\ calls[i][1].res = "fail"
        /\ calls[i][2].call.form = "map_channel_sq" /\ calls[i][2].res = "ok"
        /\ fut[i].kind = "copy"

\* the submitted tasks of the k-th stream of the probe result
TasksOfStream(k) == {i \in TaskIds : tasks[i].idx = k - 1}

\* C13 as stated: in per-channel mode channel tasks are planned only for streams
\* with more than one channel; a stream with at most one channel yields exactly one
\* whole-track task.
C13_MonoWholeTrack ==
    (fn = "split" /\ pc = "pool") =>
        \A k \in 1..Len(streams) :
            IF streams[k].channels > 1
            THEN \A i \in TasksOfStream(k) : tasks[i].ch # NoCh
            ELSE /\ Cardinality(TasksOfStream(k)) = 1
                 /\ \A i \in TasksOfStream(k) :
                       /\ tasks[i].ch = NoCh
                       /\ tasks[i].out =
                              TrackName(k - 1, codec_to_extension(streams[k].codec_name))

\* C13 amended: in per-channel mode a stream with n >= 1 channels yields exactly the
\* n channel tasks of channels 0..n-1, each with the per-channel file name, a
\* one-channel stream included; a stream whose channel count is 0 or unknown yields
\* no task; no whole-track task is planned; and when no stream yields a task the
\* call returns "No channels to process" without a pool.
C13_ChannelPlan ==
    /\ (fn = "split" /\ pc = "pool") =>
          \A k \in 1..Len(streams) :
              LET n == IF streams[k].channels > 0 THEN streams[k].channels ELSE 0
              IN  /\ Cardinality(TasksOfStream(k)) = n
                  /\ {tasks[i].ch : i \in TasksOfStream(k)} = 0..(n - 1)
                  /\ \A i \in TasksOfStream(k) :
                        tasks[i].out =
                            ChannelName(k - 1, tasks[i].ch,
                                IF tasks[i].is_pcm
                                THEN codec_to_extension(streams[k].codec_name)
                                ELSE "m4a")
    /\ (fn = "split" /\ probe = "ok" /\ streams # <<>>
            /\ \A k \in 1..Len(streams) : streams[k].channels <= 0) =>
          (tasks = <<>> /\ workers = 0 /\ msgs = <<[task |-> 0, kind |-> "NoChannels"]>>)

\* C13 witness: the channel task of a one-channel stream has invoked the engine for
\* its ".ch0." file while another stream of the container has channel tasks too.
C13_Witness ==
    /\ fn = "split"
    /\ \E k \in 1..Len(streams) :
          /\ streams[k].channels = 1
          /\ \E i \in TasksOfStream(k) :
                tasks[i].ch = 0 /\ calls[i] # <<>> /\ calls[i][1].call.out = tasks[i].out
    /\ \E k \in 1..Len(streams) : streams[k].channels > 1

\* C14 (probe returns nothing or fails): when the probe reports no stream, or the
\* probe itself fails, the call ends with the single "No audio streams found" error:
\* no task, no pool, no engine invocation, nothing created.
C14_ProbeEmptyOrFailed ==
    (probe = "oserror" \/ (probe = "ok" /\ streams = <<>>)) =>
        /\ pc = "returned"
        /\ msgs = <<[task |-> 0, kind |-> "NoAudioStreams"]>>
        /\ tasks = <<>>
        /\ workers = 0
        /\ calls = <<>>
        /\ created = <<>>

\* C15 (directory first): tasks are submitted only once the output directory exists;
\* when its creation fails the call returns the single "Cannot create output
\* directory" error, with no task, no pool, no engine invocation, no created path and
\* the directory untouched.
C15_DirectoryFirst ==
    /\ tasks # <<>> => dir_ok
    /\ (probe = "ok" /\ ~dir_ok /\ Plan(fn, streams) # <<>>) =>
          msgs = <<[task |-> 0, kind |-> "CannotCreateDir"]>>
    /\ (\E k \in 1..Len(msgs) : msgs[k].kind = "CannotCreateDir") =>
          /\ pc = "returned"
          /\ Len(msgs) = 1
          /\ tasks = <<>>
          /\ workers = 0
          /\ calls = <<>>
          /\ created = <<>>
          /\ fs = dir0

\* C15 witness: a call on a container with planned tasks has returned the directory
\* error.
C15_Witness ==
    /\ pc = "returned"
    /\ Plan(fn, streams) # <<>>
    /\ ~dir_ok
    /\ msgs = <<[task |-> 0, kind |-> "CannotCreateDir"]>>

\* C16 (container isolation): a multi-container run ends with one report per target
\* container, in target order, whatever happened in any of them: the report of a
\* container is either one container-level error or one outcome per planned task.
C16_ContainerIsolation ==
    (pc \in {"done", "aborted"}) =>
        /\ pc = "done"
        /\ Len(log) = Len(files)
        /\ \A k \in 1..Len(log) :
              /\ log[k].file = k
              /\ \/ /\ Len(log[k].msgs) = 1
                    /\ log[k].msgs[1].kind \in {"NoAudioStreams", "NoChannels", "CannotCreateDir"}
                 \/ /\ Len(log[k].msgs) = Len(Plan(fn, files[k]))
                    /\ \A j \in 1..Len(log[k].msgs) : log[k].msgs[j].task # 0

\* C17 as stated: the returned report lists the outcomes in the planner's order.
C17_PlannerOrder ==
    pc = "returned" =>
        \A a, b \in 1..Len(msgs) : a < b => msgs[a].task < msgs[b].task

\* C17 amended: the returned report holds exactly one outcome per submitted task,
\* the one its future holds, listed in the order in which the futures were gathered
\* after they finished, which may be any order; created lists the recorded paths in
\* that same order.
C17_GatheringOrder ==
    /\ \A k \in 1..Len(msgs) :
          msgs[k].task # 0 =>
              /\ msgs[k].task \in TaskIds
              /\ fut[msgs[k].task].state = "FINISHED"
              /\ msgs[k].kind = fut[msgs[k].task].kind
    /\ \A a, b \in 1..Len(msgs) : a # b => msgs[a].task # msgs[b].task
    /\ (pc = "returned" /\ tasks # <<>>) =>
          /\ Len(msgs) = Len(tasks)
          /\ {msgs[k].task : k \in 1..Len(msgs)} = TaskIds
    /\ \A a, b \in 1..Len(created) :
          a < b => \E x, y \in 1..Len(msgs) :
                       /\ x < y
                       /\ fut[msgs[x].task].path = created[a]
                       /\ fut[msgs[y].task].path = created[b]

\* C17 witness: a call has returned a report in which a later-planned task is
\* listed before an earlier-planned one, both with created files.
C17_Witness ==
    /\ pc = "returned"
    /\ Len(created) >= 2
    /\ \E a, b \in 1..Len(msgs) : a < b /\ msgs[a].task > msgs[b].task

\* C18 (liveness): once the tasks are submitted, and every engine invocation ends
\* and every thread keeps running, the call eventually returns with an outcome for
\* every submitted task.
C18_EventuallyReturns ==
    (pc = "pool") ~>
        (/\ pc = "returned"
         /\ \A i \in TaskIds :
               fut[i].state = "FINISHED"
                   /\ fut[i].kind \in {"skipped", "copy", "reencode", "failed"})

\* C19 (gate at execution time): whenever a task starts, it is Skipped exactly when
\* its output path exists at that moment (and overwrite is false), whatever the
\* directory held when the call was made.
C19_GateAtExecution ==
    [][\A i \in 1..MaxTasks :
          (i \in TaskIds /\ fut[i].state = "PENDING" /\ fut'[i].state # "PENDING") =>
              /\ fut'[i].kind = "skipped" <=> (tasks[i].out \in fs /\ ~overwrite)
              /\ gate'[i] = IF tasks[i].out \in fs THEN "exists" ELSE "absent"]_vars

\* C19 witness: one task was Skipped on a file that appeared after the call was
\* made, and another task invoked the engine although its file existed when the call
\* was made.
C19_Witness ==
    /\ \E i \in TaskIds :
          tasks[i].out \notin dir0 /\ gate[i] = "exists" /\ fut[i].kind = "skipped"
    /\ \E j \in TaskIds :
          tasks[j].out \in dir0 /\ gate[j] = "absent" /\ calls[j] # <<>>

\* C20 (overwrite reaches the engine): with overwrite = True no task is Skipped and
\* every engine invocation carries the overwrite flag -y.
C20_OverwriteReachesEngine ==
    overwrite =>
        \A i \in TaskIds :
            /\ fut[i].kind # "skipped"
            /\ \A k \in 1..Len(calls[i]) : calls[i][k].call.y

\* the gathered tasks whose outcome is a success
GatheredSuccesses == {i \in TaskIds : MsgsOf(i) # {} /\ fut[i].kind \in {"copy", "reencode"}}

\* C21 (created paths): the created list holds a path exactly for the gathered tasks
\* whose outcome is a success via copy or via re-encode, each such path once; a
\* skipped or failed task contributes no path; so when the call returns, the length
\* of created is the number of successful tasks.
C21_CreatedIffSuccess ==
    /\ Len(created) = Cardinality(GatheredSuccesses)
    /\ \A i \in GatheredSuccesses :
          Cardinality({k \in 1..Len(created) : created[k] = fut[i].path}) = 1
    /\ \A k \in 1..Len(created) :
          \E i \in GatheredSuccesses :
              created[k] = fut[i].path /\ created[k] \in {tasks[i].out, tasks[i].out_enc}
    /\ \A i \in TaskIds :
          fut[i].kind \in {"skipped", "failed"} =>
              (fut[i].path = "" /\ \A k \in MsgsOf(i) : msgs[k].kind = fut[i].kind)
    /\ (pc = "returned" /\ tasks # <<>>) =>
          Len(created) = Cardinality({i \in TaskIds : fut[i].kind \in {"copy", "reencode"}})

\* C21 witness: a call has returned with a successful, a failed and a skipped task,
\* and created holds one path.
C21_Witness ==
    /\ pc = "returned"
    /\ Len(created) = 1
    /\ \E i, j, k \in TaskIds :
          /\ fut[i].kind \in {"copy", "reencode"}
          /\ fut[j].kind = "failed"
          /\ fut[k].kind = "skipped"

\* the engine invocations in flight: <<task, index of the call>>
InFlight ==
    {<<i, k>> \in TaskIds \X (1..2) : k <= Len(calls[i]) /\ calls[i][k].res = "running"}

\* C22 (no write race): two engine invocations that are in flight at the same time
\* never target the same path, re-encode targets included.
C22_NoWriteRace ==
    \A x, y \in InFlight :
        x # y => calls[x[1]][x[2]].call.out # calls[y[1]][y[2]].call.out

\* C22 witness: the re-encode fallbacks of two whole-track tasks are in flight at the
\* same time.
C22_Witness ==
    /\ fn = "tracks"
    /\ \E x, y \in InFlight :
          /\ x[1] # y[1]
          /\ calls[x[1]][x[2]].call.form = "reencode"
          /\ calls[y[1]][y[2]].call.form = "reencode"

\* C23 (bounded pool): once the pool exists its size W is the caller's max_workers
\* when that is positive and otherwise the host's parallelism (4 when unknown), W is
\* at least 1, and at most W tasks are executing.
C23_BoundedPool ==
    tasks # <<>> =>
        /\ workers >= 1
        /\ workers = IF max_workers > 0 THEN max_workers
                     ELSE IF cpu_count = 0 THEN 4 ELSE cpu_count
        /\ Cardinality({i \in TaskIds : fut[i].state = "RUNNING"}) <= workers

\* C23 witness: the pool is saturated: as many tasks execute as there are workers
\* while another task waits in the queue.
C23_Witness ==
    /\ tasks # <<>>
    /\ NumRunning = workers
    /\ \E i \in TaskIds : fut[i].state = "PENDING"

\* C24 (planner order): the submitted task list is in ascending (track index,
\* channel index) order; whole-track tasks are the tracks 0, 1, ... in order; the
\* channel tasks of one track are its channels 0 .. channelCount-1, each once.
C24_PlannerOrder ==
    tasks # <<>> =>
        /\ \A i, j \in TaskIds :
              i < j => \/ tasks[i].idx < tasks[j].idx
                       \/ (tasks[i].idx = tasks[j].idx /\ tasks[i].ch < tasks[j].ch)
        /\ fn = "tracks" =>
              (Len(tasks) = Len(streams) /\ \A i \in TaskIds : tasks[i].idx = i - 1)
        /\ fn = "split" =>
              \A k \in 1..Len(streams) :
                  streams[k].channels >= 1 =>
                      \A c \in 0..(streams[k].channels - 1) :
                          Cardinality({i \in TasksOfStream(k) : tasks[i].ch = c}) = 1

\* C24 witness: a per-channel call has submitted the tasks of two tracks, one of
\* them with two channels.
C24_Witness ==
    /\ fn = "split"
    /\ pc = "pool"
    /\ Len(tasks) = 3
    /\ \E i \in TaskIds : tasks[i].idx = 1
    /\ \E i \in TaskIds : tasks[i].ch = 1

\* C26 (no invocation onto an existing file): with overwrite = False no engine
\* invocation of a whole-track task targets a path that was in the output directory
\* when the call was made, the re-encode target included.
C26_NoInvocationOntoExisting ==
    (fn = "tracks" /\ ~overwrite) =>
        \A i \in TaskIds :
            \A k \in 1..Len(calls[i]) : calls[i][k].call.out \notin dir0

\* the names the naming scheme prescribes, written out: container letter, decimal
\* index, the container of each codec of the model
SchemeStem == CASE cur = 1 -> "a" [] cur = 2 -> "b" [] OTHER -> "c"
SchemeDigit(n) == CASE n = 0 -> "0" [] n = 1 -> "1" [] n = 2 -> "2" [] OTHER -> "3"
SchemeExt(c) == CASE c = "aac" -> "m4a" [] c = "pcm_s16le" -> "wav" [] OTHER -> "flac"
SchemeFallbackExt(c) == CASE c = "flac" -> "flac" [] OTHER -> "m4a"
SchemeTrack(i, ext) == SchemeStem \o ".a" \o SchemeDigit(i) \o "." \o ext
SchemeChannel(i, k, ext) ==
    SchemeStem \o ".a" \o SchemeDigit(i) \o ".ch" \o SchemeDigit(k) \o "." \o ext

\* the codec table on codecs outside the model's probe results
TableRows ==
    /\ codec_to_extension("alac") = "m4a" /\ codec_to_extension("mp3") = "mp3"
    /\ codec_to_extension("opus") = "opus" /\ codec_to_extension("vorbis") = "ogg"
    /\ codec_to_extension("pcm_s24le") = "wav" /\ codec_to_extension("pcm_s32le") = "wav"
    /\ codec_to_extension("ac3") = "ac3" /\ codec_to_extension("eac3") = "eac3"
    /\ \A c \in {"unknown", "dts", "truehd", ""} : codec_to_extension(c) = "m4a"

\* C25 as stated: a whole-track task of track i with codec c is written to
\* 'B.a{i}.{ext(c)}', a per-channel task of channel k to 'B.a{i}.ch{k}.{ext}': every
\* invocation and every recorded path of the task is that name.
C25_DeterministicNames ==
    /\ TableRows
    /\ \A i \in TaskIds :
          LET name == IF fn = "tracks"
                      THEN SchemeTrack(tasks[i].idx, SchemeExt(tasks[i].codec))
                      ELSE SchemeChannel(tasks[i].idx, tasks[i].ch,
                               IF tasks[i].codec = "pcm_s16le" THEN "wav" ELSE "m4a")
          IN  /\ tasks[i].out = name
              /\ \A k \in 1..Len(calls[i]) : calls[i][k].call.out = name
              /\ fut[i].path \in {"", name}

\* C25 amended: the gate path and the copy target of a whole-track task of track i
\* with codec c are 'B.a{i}.{ext(c)}' with the codec table (unknown codecs: m4a); its
\* re-encode fallback is written to 'B.a{i}.{ext2(c)}' with the fallback encoder's
\* container (flac for flac, m4a for aac and for every codec without an encoder
\* row, PCM included); a per-channel task of channel k is written to
\* 'B.a{i}.ch{k}.{ext}' by every attempt, with ext = ext(c) for PCM and m4a for
\* every other codec.
C25_NamesAmended ==
    /\ TableRows
    /\ \A i \in TaskIds :
          IF fn = "tracks"
          THEN /\ tasks[i].out = SchemeTrack(tasks[i].idx, SchemeExt(tasks[i].codec))
               /\ \A k \in CallsOf(i, {"copy"}) : calls[i][k].call.out = tasks[i].out
               /\ \A k \in CallsOf(i, {"reencode"}) :
                     calls[i][k].call.out =
                         SchemeTrack(tasks[i].idx, SchemeFallbackExt(tasks[i].codec))
               /\ fut[i].kind = "copy" => fut[i].path = tasks[i].out
               /\ fut[i].kind = "reencode" =>
                     fut[i].path = SchemeTrack(tasks[i].idx, SchemeFallbackExt(tasks[i].codec))
          ELSE /\ tasks[i].out =
                     SchemeChannel(tasks[i].idx, tasks[i].ch,
                         IF tasks[i].codec = "pcm_s16le" THEN "wav" ELSE "m4a")
               /\ \A k \in 1..Len(calls[i]) : calls[i][k].call.out = tasks[i].out
               /\ fut[i].path \in {"", tasks[i].out}

\* C25 witness: after a first container a, the per-channel call on the second
\* container b, one stereo PCM track, has created b.a0.ch0.wav and b.a0.ch1.wav via
\* copy.
C25_Witness ==
    /\ fn = "split"
    /\ cur = 2
    /\ Len(log) = 1
    /\ pc = "returned"
    /\ Range(created) = {"b.a0.ch0.wav", "b.a0.ch1.wav"}
    /\ \A i \in TaskIds : fut[i].kind = "copy"

\* C27 (deleting originals): a video is deleted only if the delete option is set, the
\* input and output directories are equal and the audio extraction of that same file
\* returned a path in this run; a video whose extraction was skipped or failed, or
\* that the selection filtered out, is never deleted, and no other file disappears.
C27_DeleteOnlyAfterExtraction ==
    /\ \A v \in pv.deleted :
          /\ pv.delete_original_video
          /\ pv.same_dir
          /\ pv.result[v] = "ok"
          /\ v \in Range(pv.video_files)
          /\ pv.selected_files # {} => v \in pv.selected_files
    /\ \A v \in Videos : pv.result[v] \in {"skipped", "failed", "error"} => v \notin pv.deleted
    /\ pv.present0 \ pv.present = pv.deleted

\* C27 witness: with the delete option set and equal directories, one video was
\* deleted after its extraction, another whose extraction was skipped is still there.
C27_Witness ==
    /\ pv.pc = "returned"
    /\ pv.delete_original_video /\ pv.same_dir
    /\ \E v, w \in Videos :
          /\ v \in pv.deleted
          /\ pv.result[w] = "skipped"
          /\ w \in pv.present

\* C28 (add_album_art all-or-nothing): after add_album_art ran on a file, if the mux
\* command failed the audio file is as it was, no '.tmp' file remains and False was
\* returned; if it succeeded the audio file is the muxed file, no '.tmp' file remains
\* and True was returned.
C28_AllOrNothing ==
    \A v \in Videos :
        pv.mux[v] # "none" =>
            /\ pv.tmp[v] = "none"
            /\ IF pv.mux[v] = "ok"
               THEN pv.content[v] = "muxed" /\ pv.art[v] = "True"
               ELSE pv.content[v] = pv.before[v] /\ pv.art[v] = "False"

\* C29 (combo index in range): whenever on_key_press, with an active combo, is about
\* to index the active key list, 0 <= current_index < len(active_combo_keys), and
\* the callback never ends with an IndexError.
C29_IndexInRange ==
    /\ ct.pc = "target" =>
          (0 <= ct.current_index /\ ct.current_index < Len(ct.active_combo_keys))
    /\ ct.pc # "error"

\* C30 (batch MP4 to MP3): a finished conversion has left no temporary cover image,
\* whether its frame extraction or its muxing succeeded or failed; when main ends
\* every listed file has been converted or has failed on its own, each file whose
\* two steps succeeded has its mp3, and the done counter is the number of files
\* whose conversion raised no error, in every gathering order.
C30_BatchConversion ==
    /\ \A f \in Mp4s : mp.st[f] = "finished" => f \notin mp.jpg
    /\ mp.done = Cardinality({f \in Range(mp.gathered) : ~mp.raised[f]})
    /\ \A f \in Mp4s :
          mp.st[f] = "finished" =>
              (mp.raised[f] <=> ~(mp.frame[f] = "ok" /\ mp.mux[f] = "ok"))
    /\ (mp.pc = "exited" /\ mp.mp4s # {}) =>
          /\ \A f \in mp.mp4s : mp.st[f] = "finished"
          /\ \A f \in mp.mp4s : ~mp.raised[f] => f \in mp.mp3
          /\ mp.done = Cardinality({f \in mp.mp4s : ~mp.raised[f]})

\* C30 witness: main has ended after the conversion submitted first failed in its
\* muxing step, with its cover image written and removed, and was gathered last;
\* the other file was converted and done is 1.
C30_Witness ==
    /\ mp.pc = "exited"
    /\ mp.done = 1
    /\ Len(mp.gathered) = 2
    /\ mp.gathered[2] = "m1"
    /\ mp.frame["m1"] = "ok" /\ mp.mux["m1"] = "fail"
    /\ "m2" \in mp.mp3
    /\ mp.jpg = {}

====
